---- MODULE Spec2Model ----
(***************************************************************************)
(* A model of the access-token verification of simple-image-service.      *)
(*                                                                         *)
(*   Spec     app/security.py: verify_token on top of _get_public_keys     *)
(*            and the process-wide _certs_cache, one request after         *)
(*            another, over every token and every JWKS response.           *)
(*   SpecRace the same code run by NumReq requests at once (FastAPI runs   *)
(*            a sync dependency in a thread pool), over fewer inputs.      *)
(*   SpecApp  app/main.py with app/auth/cloudflare.py: the verify_token    *)
(*            installed as the application's global dependency.            *)
(***************************************************************************)
EXTENDS Naturals, Integers, Sequences, FiniteSets, TLC

(* ---------------------------------------------------------------- bounds *)
\* Concurrent request handlers (threads of the pool).
NumReq == 2
\* The clock runs from 0 to MaxTime.
MaxTime == 2
\* The clock of the concurrent runs stops at RaceMaxTime.
RaceMaxTime == 1
\* The longest "keys" list of a JWKS document.
MaxDocLen == 2
\* The exp claim of the short-lived token.
SoonExp == 1

\* 14400 seconds, the fallback lifetime of a cache entry.
DefaultMaxAge == 14400

Requests == 1..NumReq

(* ------------------------------------------------------------ the inputs *)
\* Key pairs: two the trust provider publishes (rotation overlap), one it
\* does not.
ProviderKeys == {"k_old", "k_new"}

\* The configured audience (settings.policy_aud) and another application's.
policy_aud == "aud_app"

\* The one issuer URL the process uses (settings.certs_utl).
certs_utl == "https://team/cdn-cgi/access/certs"

\* A request without the CF_Authorization cookie.
NoToken ==
  [present |-> FALSE, wellformed |-> FALSE, kid |-> "", signer |-> "", exp |-> 0, aud |-> "",
   email |-> ""]

\* A JWT: the key id its header names, the key that signed it, its claims.
SignedJwt(kid, signer, exp, aud) ==
  [present |-> TRUE, wellformed |-> TRUE, kid |-> kid, signer |-> signer, exp |-> exp,
   aud |-> aud, email |-> ""]

Jwt(signer, exp, aud) == SignedJwt(signer, signer, exp, aud)

\* A cookie that is not a JWT at all.
MalformedToken ==
  [present |-> TRUE, wellformed |-> FALSE, kid |-> "", signer |-> "", exp |-> 0, aud |-> "",
   email |-> ""]

\* exp of a token that outlives the run, and of one that expires during it.
FarExp == MaxTime + 1

Tokens ==
  { NoToken, MalformedToken,
    Jwt("k_old", FarExp, policy_aud),
    Jwt("k_new", FarExp, policy_aud),
    Jwt("k_old", SoonExp, policy_aud),
    Jwt("k_old", FarExp, "aud_other"),
    Jwt("k_rogue", FarExp, policy_aud) }

\* The email claim of a token; "" when the token carries none.
WithEmail(tok, e) == [tok EXCEPT !.email = e]

\* An email of the allow-list file, and one that is not in it.
Emails == { "in@list", "out@list" }

\* The application also meets a forgery: the rogue key's signature under the
\* key id of a published key.
AppTokens == Tokens \cup { SignedJwt("k_old", "k_rogue", FarExp, policy_aud) }

\* The cookies of the requests to POST /images: none, no JWT, the provider's
\* token without an email claim and with each email, and the forgery
\* claiming the email of the allow-list.
UploadTokens ==
  { NoToken, MalformedToken, Jwt("k_old", FarExp, policy_aud) }
  \cup { WithEmail(Jwt("k_old", FarExp, policy_aud), e) : e \in Emails }
  \cup { WithEmail(SignedJwt("k_old", "k_rogue", FarExp, policy_aud), "in@list") }

\* The content of settings.allowlist_file when it is read: no such file,
\* a file that is not JSON, or a JSON list of emails.
AllowlistFiles ==
  { [kind |-> "missing", emails |-> {}],
    [kind |-> "bad_json", emails |-> {}],
    [kind |-> "ok", emails |-> {}],
    [kind |-> "ok", emails |-> {"in@list"}] }

\* What base64.b64decode and PIL make of the image field of a body: whether
\* it decodes to an image, PIL's name of its format, and its size in bytes.
Picture(decodes, format, size) == [decodes |-> decodes, format |-> format, size |-> size]

\* 5 * 1024 * 1024 (main.py line 130)
MaxImageBytes == 5242880

Pictures ==
  { Picture(FALSE, "", 1),
    Picture(TRUE, "PNG", 1),
    Picture(TRUE, "JPEG", 1),
    Picture(TRUE, "GIF", 1),
    Picture(TRUE, "PNG", MaxImageBytes + 1) }

\* schema.ImagePost
ImagePost(image, project, key) == [image |-> image, project |-> project, key |-> key]

\* The bodies posted to /images: every picture under one key, and one
\* picture under another.
Uploads ==
  { ImagePost(img, "p", "k") : img \in Pictures }
  \cup { ImagePost(Picture(TRUE, "PNG", 1), "p", "j") }

\* A request with no body: a GET.
NoBody == ImagePost(Picture(FALSE, "", 0), "", "")

\* The routes of app/main.py, and a path no route serves.
Paths == { "/health", "/favicon.ico", "/", "/images", "/images/p/k.png" }

\* settings.auth_exclude_paths
auth_exclude_paths == { "/favicon.ico", "/health" }

\* settings.pyjwk_cache_lifespan
pyjwk_cache_lifespan == 14400

\* One entry of a JWKS document: an RSA key, or a key of another type.
Jwks ==
  { [kty |-> "RSA", n |-> "k_old"],
    [kty |-> "RSA", n |-> "k_new"],
    [kty |-> "EC", n |-> "k_ec"] }

SeqsUpTo(S, n) == UNION { [1..k -> S] : k \in 0..n }

Docs == SeqsUpTo(Jwks, MaxDocLen)

\* A Cache-Control header: its comma-separated parts.  A part is a name,
\* and after "=" either an integer, some other text, or nothing at all.
Part(name, kind, n) == [name |-> name, kind |-> kind, n |-> n]

CacheControls ==
  { << >>,
    << Part("max-age", "int", 1) >>,
    << Part("public", "noeq", 0), Part("max-age", "int", 0) >>,
    << Part("max-age", "text", 0) >>,
    << Part("max-age", "text", 0), Part("max-age", "int", 2) >> }

\* What one GET of the certs URL can give.
Responses ==
  { [kind |-> k, doc |-> << >>, cache_control |-> << >>] :
      k \in {"network_error", "http_error", "bad_json", "json_array"} }
  \cup
  { [kind |-> "ok", doc |-> d, cache_control |-> c] : d \in Docs, c \in CacheControls }

\* The inputs of the concurrent runs: a failure, and two documents with
\* different keys and different lifetimes.
RaceTokens == { Jwt("k_old", FarExp, policy_aud) }

RaceResponses ==
  { [kind |-> "network_error", doc |-> << >>, cache_control |-> << >>],
    [kind |-> "ok", doc |-> << [kty |-> "RSA", n |-> "k_old"] >>, cache_control |-> << >>],
    [kind |-> "ok", doc |-> << [kty |-> "RSA", n |-> "k_new"], [kty |-> "RSA", n |-> "k_old"] >>,
     cache_control |-> << Part("max-age", "int", 1) >>] }

\* What the endpoint answers while uploads are made: nothing, or the key set.
UploadResponses ==
  { [kind |-> "network_error", doc |-> << >>, cache_control |-> << >>],
    [kind |-> "ok", doc |-> << [kty |-> "RSA", n |-> "k_old"] >>, cache_control |-> << >>] }

\* What the endpoint can answer the application: PyJWKClient reads no header.
AppResponses ==
  { rsp \in Responses : rsp.cache_control = << >> /\ \A i \in 1..Len(rsp.doc) : rsp.doc[i].kty = "RSA" }

NoResponse == [kind |-> "none", doc |-> << >>, cache_control |-> << >>]

(* ----------------------------------------------------------------- state *)
\* require_cloudflare_zero_access is read by security.verify_token (line 71)
\* from the settings; the Settings class of app/utils.py declares no field of
\* that name, so its value is taken as given: either boolean, fixed at start.
VARIABLES
  require_cloudflare_zero_access, \* the setting verify_token reads first
  clock,                          \* time.time()
  _certs_cache,                   \* url -> [expires, keys]
  pc,                             \* where each request is
  token,                          \* request.cookies.get("CF_Authorization")
  now,                            \* _get_public_keys: now
  cache_entry,                    \* _get_public_keys: cache_entry ({} is None)
  r,                              \* _get_public_keys: the response
  keys,                           \* verify_token: keys
  tried,                          \* the keys jwt.decode was given, when, and its verdict
  status,                         \* the response status of the request
  raised,                         \* the exception that ended it
  nfetch,                         \* requests.get calls of the current request
  path,                           \* the path of the request (app/main.py)
  jwt_claims,                     \* request.state.jwt_claims ({} when not set)
  jwk_set_cache,                  \* the PyJWKClient's cached JWK set ({} when none)
  body,                           \* upload_image: data, the body of the request
  allowlist,                      \* email_allowed: allowlist ({} before it is resolved)
  uploaded,                       \* upload_image: uploaded ("" before the put)
  session,                        \* get_session: the rows of the open transaction
  objects,                        \* the keys of the objects in the bucket
  images                          \* the committed rows of the images table

svars == << require_cloudflare_zero_access, clock, _certs_cache, pc, token, now,
            cache_entry, r, keys, tried, status, raised, nfetch >>

uvars == << body, allowlist, uploaded, session, objects, images >>

avars == << path, jwt_claims, jwk_set_cache, uvars >>

vars == << svars, avars >>

(* ------------------------------------------------------ app/security.py *)

\* int(part.split("=")[1].strip()): {} when it raises.
IntAfterEq(part) == IF part.kind = "int" THEN {part.n} ELSE {}

\* "max-age" in part
MentionsMaxAge(part) == part.name = "max-age"

RECURSIVE _parse_max_age(_)
_parse_max_age(cache_control) ==
  IF cache_control = << >> THEN {}
  ELSE LET part == Head(cache_control) IN
       IF MentionsMaxAge(part) /\ IntAfterEq(part) # {}
       THEN IntAfterEq(part)
       ELSE _parse_max_age(Tail(cache_control))

\* The slip "max_age or 14400": max-age=0 becomes the default.
MaxAgeOrDefaultIfFalsy(max_age) ==
  IF max_age # {} /\ max_age # {0} THEN CHOOSE n \in max_age : TRUE ELSE DefaultMaxAge

\* max_age if max_age is not None else 14400
MaxAgeOrDefault(max_age) ==
  IF max_age # {} THEN CHOOSE n \in max_age : TRUE ELSE DefaultMaxAge

\* jwt.algorithms.RSAAlgorithm.from_jwk: {} when it raises InvalidKeyError.
from_jwk(key_dict) == IF key_dict.kty = "RSA" THEN {key_dict.n} ELSE {}

\* The loop of lines 55-58, when no entry raises.
RECURSIVE PublicKeys(_)
PublicKeys(doc) ==
  IF doc = << >> THEN << >>
  ELSE << CHOOSE k \in from_jwk(Head(doc)) : TRUE >> \o PublicKeys(Tail(doc))

AllParse(doc) == \A i \in 1..Len(doc) : from_jwk(doc[i]) # {}

\* The slip of decoding without audience=...: the aud claim goes unchecked.
DecodesIgnoringAudience(tok, key, audience, t) ==
  /\ tok.wellformed
  /\ tok.signer = key
  /\ tok.exp > t

\* jwt.decode(token, key=key, audience=audience, algorithms=["RS256"]) at time t.
Decodes(tok, key, audience, t) ==
  /\ tok.wellformed
  /\ tok.signer = key
  /\ tok.exp > t
  /\ tok.aud = audience

\* _certs_cache.get(certs_url)
CacheGet(url) == IF url \in DOMAIN _certs_cache THEN {_certs_cache[url]} ELSE {}

\* The slip "now <= expires": an entry is served at its expiry time.
FreshUntilAfterExpiry(entry, t) == entry # {} /\ \A e \in entry : t <= e.expires

\* if cache_entry: expires, keys = cache_entry; if now < expires
Fresh(entry, t) == entry # {} /\ \A e \in entry : t < e.expires

\* The slip of updating an entry in place, field by field, and losing the
\* second write: the new keys beside the old expiry.
CachePutKeepingExpiry(url, entry) ==
  [u \in DOMAIN _certs_cache \cup {url} |->
     IF u # url THEN _certs_cache[u]
     ELSE IF url \in DOMAIN _certs_cache
            THEN [expires |-> _certs_cache[url].expires, keys |-> entry.keys]
            ELSE entry]

\* _certs_cache[certs_url] = (expires, public_keys)
CachePut(url, entry) ==
  [u \in DOMAIN _certs_cache \cup {url} |-> IF u = url THEN entry ELSE _certs_cache[u]]

\* The entry lines 55-65 build from a response read by a call that began at t.
EntryOf(rsp, t) ==
  [expires |-> t + MaxAgeOrDefault(_parse_max_age(rsp.cache_control)),
   keys |-> PublicKeys(rsp.doc)]

\* A request ends: the dependency returned (200) or an exception left it.
Finish(q, code, exc) ==
  /\ pc' = [pc EXCEPT ![q] = "done"]
  /\ status' = [status EXCEPT ![q] = code]
  /\ raised' = [raised EXCEPT ![q] = exc]

\* verify_token, lines 71-76.
VerifyToken(q, tok) ==
  /\ pc[q] = "idle"
  /\ token' = [token EXCEPT ![q] = tok]
  /\ IF ~require_cloudflare_zero_access
       THEN Finish(q, 200, "")
       ELSE IF ~tok.present
              THEN Finish(q, 401, "HTTPException")
              ELSE /\ pc' = [pc EXCEPT ![q] = "get_keys"]
                   /\ UNCHANGED << status, raised >>
  /\ UNCHANGED << require_cloudflare_zero_access, clock, _certs_cache, now,
                  cache_entry, r, keys, tried, nfetch >>
  /\ UNCHANGED avars

\* _get_public_keys, lines 38-43.
Lookup(q) ==
  /\ pc[q] = "get_keys"
  /\ now' = [now EXCEPT ![q] = clock]
  /\ cache_entry' = [cache_entry EXCEPT ![q] = CacheGet(certs_utl)]
  /\ IF Fresh(CacheGet(certs_utl), clock)
       THEN /\ keys' = [keys EXCEPT ![q] = (CHOOSE e \in CacheGet(certs_utl) : TRUE).keys]
            /\ pc' = [pc EXCEPT ![q] = "decode"]
            /\ UNCHANGED nfetch
       ELSE /\ pc' = [pc EXCEPT ![q] = "fetching"]
            /\ nfetch' = [nfetch EXCEPT ![q] = nfetch[q] + 1]
            /\ UNCHANGED keys
  /\ UNCHANGED << require_cloudflare_zero_access, clock, _certs_cache, token, r,
                  tried, status, raised >>
  /\ UNCHANGED avars

\* The other policy: a failed GET is tried once more within the request.
FetchRetrying(q, rsp) ==
  /\ pc[q] = "fetching"
  /\ r' = [r EXCEPT ![q] = rsp]
  /\ IF rsp.kind \in {"network_error", "http_error", "bad_json"}
       THEN IF nfetch[q] < 2
              THEN /\ nfetch' = [nfetch EXCEPT ![q] = nfetch[q] + 1]
                   /\ UNCHANGED << pc, status, raised >>
              ELSE /\ Finish(q, 500, "HTTPException")
                   /\ UNCHANGED nfetch
       ELSE /\ pc' = [pc EXCEPT ![q] = "parse"]
            /\ UNCHANGED << status, raised, nfetch >>
  /\ UNCHANGED << require_cloudflare_zero_access, clock, _certs_cache, token, now,
                  cache_entry, keys, tried >>
  /\ UNCHANGED avars

\* The other policy: a failed refresh falls back on the expired entry.
FetchServingStale(q, rsp) ==
  /\ pc[q] = "fetching"
  /\ r' = [r EXCEPT ![q] = rsp]
  /\ IF rsp.kind \in {"network_error", "http_error", "bad_json"}
       THEN IF cache_entry[q] # {}
              THEN /\ keys' = [keys EXCEPT ![q] = (CHOOSE e \in cache_entry[q] : TRUE).keys]
                   /\ pc' = [pc EXCEPT ![q] = "decode"]
                   /\ UNCHANGED << status, raised >>
              ELSE /\ Finish(q, 500, "HTTPException")
                   /\ UNCHANGED keys
       ELSE /\ pc' = [pc EXCEPT ![q] = "parse"]
            /\ UNCHANGED << status, raised, keys >>
  /\ UNCHANGED << require_cloudflare_zero_access, clock, _certs_cache, token, now,
                  cache_entry, tried, nfetch >>
  /\ UNCHANGED avars

\* _get_public_keys, lines 45-53: the GET returns rsp, or fails.
Fetch(q, rsp) ==
  /\ pc[q] = "fetching"
  /\ r' = [r EXCEPT ![q] = rsp]
  /\ IF rsp.kind \in {"network_error", "http_error", "bad_json"}
       THEN Finish(q, 500, "HTTPException")
       ELSE /\ pc' = [pc EXCEPT ![q] = "parse"]
            /\ UNCHANGED << status, raised >>
  /\ UNCHANGED << require_cloudflare_zero_access, clock, _certs_cache, token, now,
                  cache_entry, keys, tried, nfetch >>
  /\ UNCHANGED avars

\* The slip of leaving out "if not public_keys: raise".
ParseAndStoreAllowingEmpty(q) ==
  /\ pc[q] = "parse"
  /\ IF r[q].kind = "json_array"
       THEN /\ Finish(q, 500, "AttributeError")
            /\ UNCHANGED << _certs_cache, keys >>
       ELSE IF ~AllParse(r[q].doc)
         THEN /\ Finish(q, 500, "InvalidKeyError")
              /\ UNCHANGED << _certs_cache, keys >>
         ELSE /\ _certs_cache' = CachePut(certs_utl, EntryOf(r[q], now[q]))
              /\ keys' = [keys EXCEPT ![q] = PublicKeys(r[q].doc)]
              /\ pc' = [pc EXCEPT ![q] = "decode"]
              /\ UNCHANGED << status, raised >>
  /\ UNCHANGED << require_cloudflare_zero_access, clock, token, now, cache_entry,
                  r, tried, nfetch >>
  /\ UNCHANGED avars

\* _get_public_keys, lines 55-67.
ParseAndStore(q) ==
  /\ pc[q] = "parse"
  /\ IF r[q].kind = "json_array"
       THEN /\ Finish(q, 500, "AttributeError")
            /\ UNCHANGED << _certs_cache, keys >>
       ELSE IF ~AllParse(r[q].doc)
         THEN /\ Finish(q, 500, "InvalidKeyError")
              /\ UNCHANGED << _certs_cache, keys >>
         ELSE IF PublicKeys(r[q].doc) = << >>
           THEN /\ Finish(q, 500, "HTTPException")
                /\ UNCHANGED << _certs_cache, keys >>
           ELSE /\ _certs_cache' = CachePut(certs_utl, EntryOf(r[q], now[q]))
                /\ keys' = [keys EXCEPT ![q] = PublicKeys(r[q].doc)]
                /\ pc' = [pc EXCEPT ![q] = "decode"]
                /\ UNCHANGED << status, raised >>
  /\ UNCHANGED << require_cloudflare_zero_access, clock, token, now, cache_entry,
                  r, tried, nfetch >>
  /\ UNCHANGED avars

\* The slip of raising inside the loop: the first failing key ends it.
TryKeyAbortingOnFailure(q) ==
  /\ pc[q] = "decode"
  /\ IF Len(tried[q]) = Len(keys[q])
       THEN /\ Finish(q, 401, "HTTPException")
            /\ UNCHANGED tried
       ELSE LET key == keys[q][Len(tried[q]) + 1]
                ok == Decodes(token[q], key, policy_aud, clock)
            IN /\ tried' = [tried EXCEPT ![q] = Append(@, [key |-> key, ok |-> ok, at |-> clock])]
               /\ IF ok THEN Finish(q, 200, "")
                        ELSE Finish(q, 401, "HTTPException")
  /\ UNCHANGED << require_cloudflare_zero_access, clock, _certs_cache, token, now,
                  cache_entry, r, keys, nfetch >>
  /\ UNCHANGED avars

\* verify_token, lines 78-86: one turn of the loop, or the raise after it.
TryKey(q) ==
  /\ pc[q] = "decode"
  /\ IF Len(tried[q]) = Len(keys[q])
       THEN /\ Finish(q, 401, "HTTPException")
            /\ UNCHANGED tried
       ELSE LET key == keys[q][Len(tried[q]) + 1]
                ok == Decodes(token[q], key, policy_aud, clock)
            IN /\ tried' = [tried EXCEPT ![q] = Append(@, [key |-> key, ok |-> ok, at |-> clock])]
               /\ IF ok THEN Finish(q, 200, "")
                        ELSE UNCHANGED << pc, status, raised >>
  /\ UNCHANGED << require_cloudflare_zero_access, clock, _certs_cache, token, now,
                  cache_entry, r, keys, nfetch >>
  /\ UNCHANGED avars

\* The response is sent; the handler takes the next request.
Respond(q) ==
  /\ pc[q] = "done"
  /\ pc' = [pc EXCEPT ![q] = "idle"]
  /\ token' = [token EXCEPT ![q] = NoToken]
  /\ now' = [now EXCEPT ![q] = 0]
  /\ cache_entry' = [cache_entry EXCEPT ![q] = {}]
  /\ r' = [r EXCEPT ![q] = NoResponse]
  /\ keys' = [keys EXCEPT ![q] = << >>]
  /\ tried' = [tried EXCEPT ![q] = << >>]
  /\ status' = [status EXCEPT ![q] = 0]
  /\ raised' = [raised EXCEPT ![q] = ""]
  /\ nfetch' = [nfetch EXCEPT ![q] = 0]
  /\ UNCHANGED << require_cloudflare_zero_access, clock, _certs_cache >>
  /\ UNCHANGED avars

\* Time passes, up to the end of the run.
Tick(end) ==
  /\ clock < end
  /\ clock' = clock + 1
  /\ UNCHANGED << require_cloudflare_zero_access, _certs_cache, pc, token, now,
                  cache_entry, r, keys, tried, status, raised, nfetch >>
  /\ UNCHANGED avars

(* ------------------------------------- app/auth/cloudflare.py, app/main.py *)

\* PyJWKClient.fetch_data and get_jwk_set, with the JWK set cache as it is
\* left: the keys of the set, or the exception raised.
GetJwkSet(cache, refresh, rsp, t) ==
  LET cached == IF refresh THEN {} ELSE { e \in cache : t <= e.expires }
      fetched == [data |-> rsp, expires |-> t + pyjwk_cache_lifespan]
      data == IF cached # {} THEN (CHOOSE e \in cached : TRUE).data ELSE rsp
      after == IF cached # {} THEN cache
               ELSE IF rsp.kind \in {"ok", "json_array"} THEN {fetched} ELSE {}
  IN IF cached = {} /\ rsp.kind \in {"network_error", "http_error"}
       THEN [cache |-> after, keys |-> << >>, exc |-> "PyJWKClientConnectionError"]
     ELSE IF cached = {} /\ rsp.kind = "bad_json"
       THEN [cache |-> after, keys |-> << >>, exc |-> "JSONDecodeError"]
     ELSE IF data.kind = "json_array"
       THEN [cache |-> after, keys |-> << >>, exc |-> "PyJWKClientError"]
     ELSE IF data.doc = << >>
       THEN [cache |-> after, keys |-> << >>, exc |-> "PyJWKSetError"]
     ELSE [cache |-> after, keys |-> data.doc, exc |-> ""]

\* PyJWKClient.match_kid
MatchKid(signing_keys, kid) ==
  LET hits == { i \in 1..Len(signing_keys) : signing_keys[i].n = kid }
  IN IF hits = {} THEN {}
     ELSE { signing_keys[CHOOSE i \in hits : \A j \in hits : i <= j] }

\* PyJWKClient.get_signing_key_from_jwt: the signing key, or the exception.
\* rsp1 and rsp2 are what the endpoint answers if it is asked, and asked again.
GetSigningKeyFromJwt(cache, tok, rsp1, rsp2, t) ==
  IF ~tok.wellformed
    THEN [cache |-> cache, key |-> {}, exc |-> "DecodeError"]
  ELSE LET first == GetJwkSet(cache, FALSE, rsp1, t) IN
    IF first.exc # ""
      THEN [cache |-> first.cache, key |-> {}, exc |-> first.exc]
    ELSE IF MatchKid(first.keys, tok.kid) # {}
      THEN [cache |-> first.cache, key |-> MatchKid(first.keys, tok.kid), exc |-> ""]
    ELSE LET second == GetJwkSet(first.cache, TRUE, rsp2, t) IN
      IF second.exc # ""
        THEN [cache |-> second.cache, key |-> {}, exc |-> second.exc]
      ELSE IF MatchKid(second.keys, tok.kid) # {}
        THEN [cache |-> second.cache, key |-> MatchKid(second.keys, tok.kid), exc |-> ""]
      ELSE [cache |-> second.cache, key |-> {}, exc |-> "PyJWKClientError"]

\* A request arrives at the application.
\* d is its body: an ImagePost to POST /images, none for a GET.
AppRequest(q, p, tok, d) ==
  /\ pc[q] = "idle"
  /\ d # NoBody => p = "/images"
  /\ pc' = [pc EXCEPT ![q] = "verify"]
  /\ path' = [path EXCEPT ![q] = p]
  /\ token' = [token EXCEPT ![q] = tok]
  /\ body' = [body EXCEPT ![q] = d]
  /\ UNCHANGED << require_cloudflare_zero_access, clock, _certs_cache, now, cache_entry,
                  r, keys, tried, status, raised, nfetch, jwt_claims, jwk_set_cache,
                  allowlist, uploaded, session, objects, images >>

\* cloudflare.verify_token, the dependency of every route (main.py line 54).
\* It is a coroutine that never awaits: it runs without interleaving.
AppVerifyToken(q, rsp1, rsp2) ==
  /\ pc[q] = "verify"
  /\ IF ~token[q].present
       THEN /\ Finish(q, 401, "HTTPException")
            /\ UNCHANGED << jwt_claims, jwk_set_cache >>
       ELSE LET got == GetSigningKeyFromJwt(jwk_set_cache, token[q], rsp1, rsp2, clock) IN
            /\ jwk_set_cache' = got.cache
            /\ IF got.exc # ""
                 THEN /\ Finish(q, 500, got.exc)
                      /\ UNCHANGED jwt_claims
                 ELSE IF \E k \in got.key : Decodes(token[q], k.n, policy_aud, clock)
                   THEN /\ jwt_claims' = [jwt_claims EXCEPT ![q] = {token[q]}]
                        /\ pc' = [pc EXCEPT ![q] = "route"]
                        /\ UNCHANGED << status, raised >>
                   ELSE /\ Finish(q, 401, "HTTPException")
                        /\ UNCHANGED jwt_claims
  /\ UNCHANGED << require_cloudflare_zero_access, clock, _certs_cache, token, now,
                  cache_entry, r, keys, tried, nfetch, path >>
  /\ UNCHANGED uvars

\* The request is a POST to /images.
IsUpload(q) == path[q] = "/images" /\ body[q] # NoBody

\* A route other than POST /images: its function runs and the request is
\* served.
AppServe(q) ==
  /\ pc[q] = "route"
  /\ ~IsUpload(q)
  /\ Finish(q, 200, "")
  /\ UNCHANGED << require_cloudflare_zero_access, clock, _certs_cache, token, now,
                  cache_entry, r, keys, tried, nfetch, path, jwt_claims, jwk_set_cache >>
  /\ UNCHANGED uvars

\* claims.get("email"): "" when there is none.
ClaimedEmail(claims) == IF claims = {} THEN "" ELSE (CHOOSE c \in claims : TRUE).email

\* The dependency of POST /images (main.py line 105): allowed_emails reads
\* the allow-list file, then email_allowed looks the email claim up in it.
AppEmailAllowed(q, file) ==
  /\ pc[q] = "route"
  /\ IsUpload(q)
  /\ IF file.kind # "ok"
       THEN /\ Finish(q, 500, "HTTPException")
            /\ UNCHANGED allowlist
       ELSE /\ allowlist' = [allowlist EXCEPT ![q] = {file.emails}]
            /\ IF jwt_claims[q] = {} \/ ClaimedEmail(jwt_claims[q]) = ""
                 THEN Finish(q, 401, "HTTPException")
               ELSE IF ClaimedEmail(jwt_claims[q]) \notin file.emails
                 THEN Finish(q, 403, "HTTPException")
               ELSE /\ pc' = [pc EXCEPT ![q] = "body"]
                    /\ UNCHANGED << status, raised >>
  /\ UNCHANGED << require_cloudflare_zero_access, clock, _certs_cache, token, now,
                  cache_entry, r, keys, tried, nfetch, path, jwt_claims, jwk_set_cache,
                  body, uploaded, session, objects, images >>

\* img.format.lower()
Lower(format) ==
  CASE format = "PNG" -> "png"
    [] format = "JPEG" -> "jpeg"
    [] format = "GIF" -> "gif"
    [] OTHER -> format

SUPPORTED_IMAGE_FORMATS == { "avif", "png", "webp", "jpeg", "jpg" }

\* f"{data.project}/{data.key}.{fmt}"
S3Key(project, key, fmt) == project \o "/" \o key \o "." \o fmt

\* What upload_fileobj can do: store the object, or raise botocore's
\* ClientError, or raise another error (no connection to the endpoint).
PutOutcomes == { "ok", "ClientError", "EndpointConnectionError" }

\* boto_s3.upload_file_bytes: its return value ("" when it raises), and the
\* bucket as it leaves it.
upload_file_bytes(bucket, object_name, put) ==
  CASE put = "ok" -> [returns |-> "True", bucket |-> bucket \cup {object_name}]
    [] put = "ClientError" -> [returns |-> "False", bucket |-> bucket]
    [] OTHER -> [returns |-> "", bucket |-> bucket]

\* The row upload_image writes for a body and the format found in it.
RowOf(d, fmt) ==
  [project |-> d.project, key |-> d.key, size |-> d.image.size, format |-> fmt,
   s3_path |-> S3Key(d.project, d.key, fmt)]

\* The format upload_image settles on (main.py lines 117, 123-124).
FormatOf(d) == LET fmt == Lower(d.image.format) IN IF fmt = "jpg" THEN "jpeg" ELSE fmt

\* The other order: the put result is not looked at before the upsert.
AppUploadImageIgnoringPutResult(q, put) ==
  /\ pc[q] = "body"
  /\ LET d == body[q]
         fmt == FormatOf(d)
         up == upload_file_bytes(objects, S3Key(d.project, d.key, fmt), put)
     IN IF ~d.image.decodes \/ fmt \notin SUPPORTED_IMAGE_FORMATS
             \/ d.image.size > MaxImageBytes
          THEN /\ Finish(q, 400, "HTTPException")
               /\ UNCHANGED << uploaded, objects >>
          ELSE /\ objects' = up.bucket
               /\ uploaded' = [uploaded EXCEPT ![q] = up.returns]
               /\ IF up.returns = ""
                    THEN Finish(q, 500, "HTTPException")
                    ELSE /\ pc' = [pc EXCEPT ![q] = "upsert"]
                         /\ UNCHANGED << status, raised >>
  /\ UNCHANGED << require_cloudflare_zero_access, clock, _certs_cache, token, now,
                  cache_entry, r, keys, tried, nfetch, path, jwt_claims, jwk_set_cache,
                  body, allowlist, session, images >>

\* upload_image up to the put (main.py lines 110-138), within the session
\* get_session opened: the checks of the body, then upload_file_bytes.  An
\* HTTPException passes through get_session, which rolls back; any other
\* exception leaves it as HTTPException(500).
AppUploadImage(q, put) ==
  /\ pc[q] = "body"
  /\ LET d == body[q]
         fmt == FormatOf(d)
         up == upload_file_bytes(objects, S3Key(d.project, d.key, fmt), put)
     IN IF ~d.image.decodes \/ fmt \notin SUPPORTED_IMAGE_FORMATS
             \/ d.image.size > MaxImageBytes
          THEN /\ Finish(q, 400, "HTTPException")
               /\ UNCHANGED << uploaded, objects >>
          ELSE /\ objects' = up.bucket
               /\ uploaded' = [uploaded EXCEPT ![q] = up.returns]
               /\ IF up.returns # "True"
                    THEN Finish(q, 500, "HTTPException")
                    ELSE /\ pc' = [pc EXCEPT ![q] = "upsert"]
                         /\ UNCHANGED << status, raised >>
  /\ UNCHANGED << require_cloudflare_zero_access, clock, _certs_cache, token, now,
                  cache_entry, r, keys, tried, nfetch, path, jwt_claims, jwk_set_cache,
                  body, allowlist, session, images >>

\* INSERT ... ON CONFLICT (project, key) DO UPDATE
Upsert(table, row) ==
  { t \in table : << t.project, t.key >> # << row.project, row.key >> } \cup {row}

\* await session.execute(...) (main.py lines 140-164): the row joins the
\* open transaction, or the statement fails and get_session rolls back.
AppUpsert(q, db_ok) ==
  /\ pc[q] = "upsert"
  /\ IF db_ok
       THEN /\ session' = [session EXCEPT ![q] = {RowOf(body[q], FormatOf(body[q]))}]
            /\ pc' = [pc EXCEPT ![q] = "commit"]
            /\ UNCHANGED << status, raised >>
       ELSE /\ session' = [session EXCEPT ![q] = {}]
            /\ Finish(q, 500, "HTTPException")
  /\ UNCHANGED << require_cloudflare_zero_access, clock, _certs_cache, token, now,
                  cache_entry, r, keys, tried, nfetch, path, jwt_claims, jwk_set_cache,
                  body, allowlist, uploaded, objects, images >>

\* get_session after the yield (database.py lines 70-80): the commit, or
\* the rollback when it fails.
AppCommit(q, db_ok) ==
  /\ pc[q] = "commit"
  /\ session' = [session EXCEPT ![q] = {}]
  /\ IF db_ok
       THEN /\ images' = IF session[q] = {} THEN images
                         ELSE Upsert(images, CHOOSE row \in session[q] : TRUE)
            /\ Finish(q, 200, "")
       ELSE /\ UNCHANGED images
            /\ Finish(q, 500, "HTTPException")
  /\ UNCHANGED << require_cloudflare_zero_access, clock, _certs_cache, token, now,
                  cache_entry, r, keys, tried, nfetch, path, jwt_claims, jwk_set_cache,
                  body, allowlist, uploaded, objects >>

\* The response is sent; the request's state goes with it.
AppRespond(q) ==
  /\ pc[q] = "done"
  /\ pc' = [pc EXCEPT ![q] = "idle"]
  /\ token' = [token EXCEPT ![q] = NoToken]
  /\ path' = [path EXCEPT ![q] = ""]
  /\ jwt_claims' = [jwt_claims EXCEPT ![q] = {}]
  /\ status' = [status EXCEPT ![q] = 0]
  /\ raised' = [raised EXCEPT ![q] = ""]
  /\ body' = [body EXCEPT ![q] = NoBody]
  /\ allowlist' = [allowlist EXCEPT ![q] = {}]
  /\ uploaded' = [uploaded EXCEPT ![q] = ""]
  /\ UNCHANGED << require_cloudflare_zero_access, clock, _certs_cache, now, cache_entry,
                  r, keys, tried, nfetch, jwk_set_cache, session, objects, images >>

(* ------------------------------------------------------------ the claims *)
\* What the claims mean by their own words, apart from the code above.

\* key verifies tok's signature, expiry and audience at time t.
Authentic(tok, key, t) ==
  tok.present /\ tok.wellformed /\ tok.signer = key /\ t < tok.exp /\ tok.aud = policy_aud

\* The call of _get_public_keys of request q has returned or raised.
CallOver(q) ==
  \/ pc[q] = "decode"
  \/ pc[q] = "done" /\ require_cloudflare_zero_access /\ token[q].present

\* The call found an entry it could use: one exists and now < expires_at.
CacheHit(q) == \E e \in cache_entry[q] : now[q] < e.expires

\* The call found an entry it could not use.
StaleEntry(q) == \E e \in cache_entry[q] : now[q] >= e.expires

IsRsa(jwk) == jwk.kty = "RSA"

\* The keys of a document's parsable entries, in document order.
RECURSIVE UsableKeys(_)
UsableKeys(doc) ==
  IF doc = << >> THEN << >>
  ELSE (IF IsRsa(Head(doc)) THEN << Head(doc).n >> ELSE << >>) \o UsableKeys(Tail(doc))

\* A complete, successful fetch and parse.
FetchSucceeds(rsp) ==
  rsp.kind = "ok" /\ rsp.doc # << >> /\ \A i \in 1..Len(rsp.doc) : IsRsa(rsp.doc[i])

\* The lifetime a Cache-Control header asks for.
NumericMaxAge(h) == { i \in 1..Len(h) : h[i].name = "max-age" /\ h[i].kind = "int" }

TtlOf(h) ==
  IF NumericMaxAge(h) = {} THEN 14400
  ELSE h[CHOOSE i \in NumericMaxAge(h) : \A j \in NumericMaxAge(h) : i <= j].n

C2_MultiKeyTolerance ==
  \A q \in Requests :
    CallOver(q) /\ keys[q] # << >> =>
      LET n == Len(tried[q]) IN
      /\ n <= Len(keys[q])
      /\ \A i \in 1..n :
           /\ tried[q][i].key = keys[q][i]
           /\ tried[q][i].ok <=> Authentic(token[q], keys[q][i], tried[q][i].at)
           /\ tried[q][i].ok => i = n /\ pc[q] = "done" /\ status[q] = 200
      /\ pc[q] = "done" => status[q] \in {200, 401}
      /\ pc[q] = "done" /\ status[q] = 200 => n >= 1 /\ tried[q][n].ok
      /\ pc[q] = "done" /\ status[q] = 401 =>
           /\ n = Len(keys[q])
           /\ \A i \in 1..n : ~tried[q][i].ok
           /\ ~\E i \in 1..n : Authentic(token[q], keys[q][i], clock)

\* C2: the first key failed and the second one authenticated the token.
C2_Witness ==
  \E q \in Requests :
    /\ pc[q] = "done" /\ status[q] = 200
    /\ Len(tried[q]) = 2 /\ ~tried[q][1].ok /\ tried[q][2].ok

\* C3: a call that finds an entry with now < expires_at returns that entry's
\* keys and fetches nothing; any other call fetches exactly once, and when
\* the fetch succeeds the entry is the fetched keys, nothing else, and they
\* are what the call returns.
C3_CacheFreshness ==
  \A q \in Requests :
    /\ pc[q] \in {"fetching", "parse"} => nfetch[q] = 1 /\ ~CacheHit(q)
    /\ CallOver(q) /\ CacheHit(q) =>
         /\ nfetch[q] = 0
         /\ r[q] = NoResponse
         /\ \E e \in cache_entry[q] : keys[q] = e.keys
         /\ CacheGet(certs_utl) = cache_entry[q]
    /\ CallOver(q) /\ ~CacheHit(q) =>
         /\ nfetch[q] = 1
         /\ r[q] \in Responses
         /\ FetchSucceeds(r[q]) =>
              /\ keys[q] = UsableKeys(r[q].doc)
              /\ \E e \in CacheGet(certs_utl) : e.keys = UsableKeys(r[q].doc)

\* C3: an entry expired, and the call that found it fetched once and
\* replaced it with other keys.
C3_Witness ==
  \E q \in Requests :
    /\ pc[q] = "decode" /\ StaleEntry(q) /\ nfetch[q] = 1
    /\ \E e \in cache_entry[q] : e.keys # keys[q]

\* C4, as stated: a failed refresh of an expired entry ends the request with
\* 401 and without trying the stale keys; a failed first fetch ends it 500.
C4_StaleRefreshFailureIs401 ==
  \A q \in Requests :
    pc[q] = "done" /\ CallOver(q) /\ ~CacheHit(q) /\ ~FetchSucceeds(r[q]) =>
      /\ tried[q] = << >>
      /\ StaleEntry(q) => status[q] = 401
      /\ cache_entry[q] = {} => status[q] = 500

\* C4, amended: a failed fetch ends the request with 500, whether an expired
\* entry exists or none does, and the stale keys are never tried.
C4_FailedFetchIs500 ==
  \A q \in Requests :
    pc[q] = "done" /\ CallOver(q) /\ ~CacheHit(q) /\ ~FetchSucceeds(r[q]) =>
      /\ tried[q] = << >>
      /\ keys[q] = << >>
      /\ status[q] = 500

\* C4: an expired entry exists and its refresh failed.
C4_Witness ==
  \E q \in Requests :
    /\ pc[q] = "done" /\ StaleEntry(q) /\ r[q].kind = "network_error"
    /\ status[q] = 500

\* C5: every cache entry holds at least one key; a call whose fetch or parse
\* fails raises and leaves the cache as it found it.
C5_CacheInvariant ==
  /\ \A u \in DOMAIN _certs_cache : _certs_cache[u].keys # << >>
  /\ \A q \in Requests :
       CallOver(q) /\ ~CacheHit(q) /\ ~FetchSucceeds(r[q]) =>
         /\ pc[q] = "done" /\ status[q] = 500
         /\ CacheGet(certs_utl) = cache_entry[q]
  /\ \A q \in Requests :
       pc[q] = "parse" => CacheGet(certs_utl) = cache_entry[q]

\* C5: the endpoint answered {"keys": []} and the cache is still empty.
C5_Witness ==
  \E q \in Requests :
    /\ pc[q] = "done" /\ r[q].kind = "ok" /\ r[q].doc = << >>
    /\ _certs_cache = << >>

C10_UnparsableEntriesSkipped ==
  \A q \in Requests :
    CallOver(q) /\ ~CacheHit(q) /\ r[q].kind = "ok" /\ UsableKeys(r[q].doc) # << >> =>
      /\ keys[q] = UsableKeys(r[q].doc)
      /\ pc[q] = "done" => status[q] # 500

\* C6, as stated: a request to an excluded path is served without a token,
\* and no other request is served without one.
C6_ExcludedPathsServedWithoutToken ==
  \A q \in Requests :
    pc[q] = "done" /\ ~token[q].present =>
      IF path[q] \in auth_exclude_paths THEN status[q] = 200 ELSE status[q] = 401

\* C9, as stated: a request whose token is malformed, or names or is signed
\* by a key the endpoint does not publish, ends 401.
C9_BadTokenIs401 ==
  \A q \in Requests :
    /\ pc[q] = "done"
    /\ token[q].present
    /\ \/ ~token[q].wellformed
       \/ token[q].kid \notin ProviderKeys
       \/ token[q].signer \notin ProviderKeys
    => status[q] = 401

\* The entries one fetch of the concurrent runs can produce: the keys of a
\* response with the lifetime of the same response, from the start of a call.
SingleFetchEntries ==
  { [expires |-> t + TtlOf(rsp.cache_control), keys |-> UsableKeys(rsp.doc)] :
      rsp \in { x \in RaceResponses : FetchSucceeds(x) }, t \in 0..RaceMaxTime }

RECURSIVE SumTo(_, _)
SumTo(f, n) == IF n = 0 THEN 0 ELSE f[n] + SumTo(f, n - 1)

\* C8: under every interleaving of NumReq requests, no more fetches are
\* issued than calls were made, and the entry in the cache, the entry every
\* call read, and the keys every call returns come whole from one fetch.
C8_ConcurrentRefresh ==
  /\ SumTo(nfetch, NumReq) <= Cardinality({ q \in Requests : pc[q] \notin {"idle", "get_keys"} })
  /\ \A u \in DOMAIN _certs_cache : _certs_cache[u] \in SingleFetchEntries
  /\ \A q \in Requests : cache_entry[q] \subseteq SingleFetchEntries
  /\ \A q \in Requests :
       pc[q] = "decode" => \E e \in SingleFetchEntries : e.keys = keys[q]

\* C8: two calls missed the empty cache together, each fetched, and each
\* stored what it got.
C8_Witness ==
  /\ \A q \in {1, 2} : pc[q] = "decode" /\ nfetch[q] = 1 /\ cache_entry[q] = {}
  /\ r[1] # r[2]

\* The states of the per-request machine, in the order a request meets them.
Rank(p) ==
  CASE p = "idle" -> 0
    [] p = "get_keys" -> 1
    [] p = "fetching" -> 2
    [] p = "parse" -> 3
    [] p = "decode" -> 4
    [] p = "done" -> 5

\* The per-request machine, in the states of request q.
RequestMachine(q) ==
  \* a fresh request carries nothing over
  /\ pc[q] = "idle" => tried[q] = << >> /\ keys[q] = << >> /\ nfetch[q] = 0 /\ status[q] = 0
  \* the terminal states
  /\ pc[q] = "done" <=> status[q] \in {200, 401, 500}
  /\ status[q] \in {0, 200, 401, 500}
  \* NoToken -> Rejected(401), with no cache lookup and no fetch
  /\ pc[q] \in {"get_keys", "fetching", "parse", "decode"} => token[q].present
  /\ pc[q] = "done" /\ ~token[q].present =>
       status[q] = 401 /\ nfetch[q] = 0 /\ tried[q] = << >>
  \* TokenPresent -> KeysLoading before any verification attempt
  /\ pc[q] = "done" /\ token[q].present =>
       \/ CacheHit(q) /\ nfetch[q] = 0
       \/ ~CacheHit(q) /\ nfetch[q] = 1 /\ r[q] \in Responses
  /\ tried[q] # << >> =>
       /\ pc[q] \in {"decode", "done"}
       /\ \/ \E e \in cache_entry[q] : now[q] < e.expires /\ keys[q] = e.keys
          \/ FetchSucceeds(r[q]) /\ keys[q] = UsableKeys(r[q].doc)
       /\ \A i \in 1..Len(tried[q]) : tried[q][i].key = keys[q][i]
  \* KeysUnavailable -> Rejected(500)
  /\ pc[q] = "done" /\ token[q].present /\ ~CacheHit(q) /\ ~FetchSucceeds(r[q]) =>
       status[q] = 500 /\ tried[q] = << >>
  \* AllKeysFailed -> Rejected(401), OneKeySucceeded -> Authenticated
  /\ pc[q] = "done" /\ token[q].present /\ (CacheHit(q) \/ FetchSucceeds(r[q])) =>
       /\ tried[q] # << >>
       /\ status[q] = (IF tried[q][Len(tried[q])].ok THEN 200 ELSE 401)
       /\ status[q] = 401 => Len(tried[q]) = Len(keys[q])
  \* at most one fetch per request
  /\ nfetch[q] <= 1

\* No state of the machine is entered twice by one request: every step of a
\* request moves it forward, or tries the next key; the step that ends the
\* request leaves the cache to the requests after it.
NoRetry ==
  \A q \in Requests :
    /\ pc'[q] # pc[q] =>
         \/ Rank(pc'[q]) > Rank(pc[q])
         \/ pc[q] = "done" /\ pc'[q] = "idle" /\ _certs_cache' = _certs_cache
    /\ pc'[q] = pc[q] /\ tried'[q] # tried[q] =>
         pc[q] = "decode" /\ Len(tried'[q]) = Len(tried[q]) + 1
    /\ pc'[q] = pc[q] => nfetch'[q] = nfetch[q] /\ r'[q] = r[q] /\ keys'[q] = keys[q]

IssuedForApp(tok) ==
  /\ tok.present /\ tok.wellformed
  /\ tok.signer \in ProviderKeys /\ tok.kid = tok.signer
  /\ tok.aud = policy_aud

\* Request q has claims attached, and they are its own token's.
ClaimsAttached(q) == jwt_claims[q] # {}

\* The body of POST /images has been entered for request q.
BodyEntered(q) ==
  pc[q] \in {"body", "upsert", "commit"} \/ uploaded[q] # "" \/ session[q] # {}

\* The email of request q's token is in the allow-list read for the request.
EmailListed(q) == \E list \in allowlist[q] : token[q].email \in list

\* C12, the part about authorization: the body of POST /images is entered
\* only with claims attached by a successful decode whose email is in the
\* allow-list; claims are attached only by a successful decode; a request
\* answered 401 or 403 has put nothing in the store and has no row pending;
\* without an email claim the answer of email_allowed is 401 and with an
\* email that is not in the list it is 403.
C12_BodyOnlyForAllowedEmail ==
  \A q \in Requests :
    /\ ClaimsAttached(q) => jwt_claims[q] = {token[q]} /\ IssuedForApp(token[q])
    /\ BodyEntered(q) =>
         IsUpload(q) /\ ClaimsAttached(q) /\ token[q].email # "" /\ EmailListed(q)
    /\ pc[q] = "done" /\ status[q] \in {401, 403} => uploaded[q] = "" /\ session[q] = {}
    /\ pc[q] = "done" /\ IsUpload(q) /\ ClaimsAttached(q) /\ allowlist[q] # {} =>
         /\ token[q].email = "" => status[q] = 401
         /\ token[q].email # "" /\ ~EmailListed(q) => status[q] = 403

\* C12, as stated: the above, and a request to POST /images without attached
\* claims or without an email claim is answered 401.
C12_AuthorizationFollowsAuthentication ==
  /\ C12_BodyOnlyForAllowedEmail
  /\ \A q \in Requests :
       pc[q] = "done" /\ IsUpload(q) /\ (~ClaimsAttached(q) \/ token[q].email = "") =>
         status[q] = 401 /\ uploaded[q] = ""

\* C12: an upload by an allow-listed email has run the body and stored its
\* object.
C12_Witness ==
  \E q \in Requests :
    /\ pc[q] = "done" /\ status[q] = 200 /\ IsUpload(q)
    /\ EmailListed(q) /\ uploaded[q] = "True"

\* The body passes the checks upload_image makes before the put.
Acceptable(d) ==
  /\ d.image.decodes
  /\ d.image.format \in {"PNG", "JPEG"}
  /\ d.image.size <= MaxImageBytes

\* The object upload_image stores for an acceptable body.
ObjectOf(d) ==
  IF d.image.format = "PNG" THEN d.project \o "/" \o d.key \o ".png"
  ELSE d.project \o "/" \o d.key \o ".jpeg"

\* The steps of upload_image in their order: a put that fails ends the
\* request with 500 and leaves the table alone; the table changes only by
\* the commit of a request whose put returned ok, and to a row naming the
\* object that was put.
UploadOrder ==
  \A q \in Requests :
    /\ pc[q] = "body" /\ pc'[q] = "done" /\ Acceptable(body[q]) =>
         /\ objects' = objects /\ uploaded'[q] # "True"
         /\ status'[q] = 500 /\ images' = images
    /\ pc[q] = "body" /\ pc'[q] = "upsert" =>
         /\ Acceptable(body[q]) /\ uploaded'[q] = "True"
         /\ objects' = objects \cup {ObjectOf(body[q])}
         /\ images' = images /\ session'[q] = {}
    /\ pc'[q] # pc[q] /\ images' # images =>
         /\ pc[q] = "commit" /\ uploaded[q] = "True"
         /\ \E row \in images' :
              /\ row.project = body[q].project /\ row.key = body[q].key
              /\ row.s3_path = ObjectOf(body[q])
              /\ images' \ {row} \subseteq images
              /\ \A old \in images \ images' : old.project = row.project /\ old.key = row.key

\* C13: every committed row of the images table names an object that is in
\* the store; a row is pending or on its way only after a put that returned
\* ok; a failed put ends the request with 500; and the steps come in the
\* order put, upsert, commit.
C13_RowsNameStoredObjects ==
  /\ [](\A row \in images : row.s3_path \in objects)
  /\ [](\A q \in Requests :
          /\ pc[q] \in {"upsert", "commit"} \/ session[q] # {} =>
               uploaded[q] = "True" /\ ObjectOf(body[q]) \in objects
          /\ \A row \in session[q] : row.s3_path = ObjectOf(body[q])
          /\ uploaded[q] = "False" => pc[q] = "done" /\ status[q] = 500 /\ session[q] = {})
  /\ [][UploadOrder]_vars

\* C13: a put has just failed with rows committed before it, and the store
\* holds an object that no row names: the converse does not hold.
C13_Witness ==
  /\ images # {}
  /\ \E o \in objects : \A row \in images : row.s3_path # o
  /\ \E q \in Requests : pc[q] = "done" /\ uploaded[q] = "False" /\ status[q] = 500

Init ==
  /\ require_cloudflare_zero_access \in BOOLEAN
  /\ clock = 0
  /\ _certs_cache = << >>
  /\ pc = [q \in Requests |-> "idle"]
  /\ token = [q \in Requests |-> NoToken]
  /\ now = [q \in Requests |-> 0]
  /\ cache_entry = [q \in Requests |-> {}]
  /\ r = [q \in Requests |-> NoResponse]
  /\ keys = [q \in Requests |-> << >>]
  /\ tried = [q \in Requests |-> << >>]
  /\ status = [q \in Requests |-> 0]
  /\ raised = [q \in Requests |-> ""]
  /\ nfetch = [q \in Requests |-> 0]
  /\ path = [q \in Requests |-> ""]
  /\ jwt_claims = [q \in Requests |-> {}]
  /\ jwk_set_cache = {}
  /\ body = [q \in Requests |-> NoBody]
  /\ allowlist = [q \in Requests |-> {}]
  /\ uploaded = [q \in Requests |-> ""]
  /\ session = [q \in Requests |-> {}]
  /\ objects = {}
  /\ images = {}

\* One request after another: a single handler, every input.
Next ==
  \/ \E tok \in Tokens : VerifyToken(1, tok)
  \/ Lookup(1)
  \/ \E rsp \in Responses : Fetch(1, rsp)
  \/ ParseAndStore(1)
  \/ TryKey(1)
  \/ Respond(1)
  \/ Tick(MaxTime)

Spec == Init /\ [][Next]_vars

\* NumReq requests at once.
NextRace ==
  \/ \E q \in Requests, tok \in RaceTokens : VerifyToken(q, tok)
  \/ \E q \in Requests : Lookup(q)
  \/ \E q \in Requests, rsp \in RaceResponses : Fetch(q, rsp)
  \/ \E q \in Requests : ParseAndStore(q)
  \/ \E q \in Requests : TryKey(q)
  \/ \E q \in Requests : Respond(q)
  \/ Tick(RaceMaxTime)

SpecRace == Init /\ [][NextRace]_vars

\* The application: requests to every route, with every cookie.
NextApp ==
  \/ \E p \in Paths, tok \in AppTokens : AppRequest(1, p, tok, NoBody)
  \/ \E rsp1, rsp2 \in AppResponses : AppVerifyToken(1, rsp1, rsp2)
  \/ AppServe(1)
  \/ AppRespond(1)
  \/ Tick(MaxTime)

\* cloudflare.verify_token reads no such setting: it is left on.
InitApp == Init /\ require_cloudflare_zero_access = TRUE

SpecApp == InitApp /\ [][NextApp]_vars

\* The uploads: requests to /images, one after another, with each cookie
\* and each body.
NextUpload ==
  \/ \E tok \in UploadTokens, d \in Uploads \cup {NoBody} : AppRequest(1, "/images", tok, d)
  \/ \E rsp1, rsp2 \in UploadResponses : AppVerifyToken(1, rsp1, rsp2)
  \/ AppServe(1)
  \/ \E file \in AllowlistFiles : AppEmailAllowed(1, file)
  \/ \E put \in PutOutcomes : AppUploadImage(1, put)
  \/ \E db_ok \in BOOLEAN : AppUpsert(1, db_ok)
  \/ \E db_ok \in BOOLEAN : AppCommit(1, db_ok)
  \/ AppRespond(1)
  \/ Tick(MaxTime)

SpecUpload == InitApp /\ [][NextUpload]_vars

====
